---- MODULE Spec2Model ----
(***************************************************************************)
(* A model of pdf_dashboard.py: the PDF processing functions (text        *)
(* cleaning, extractive summary, keyword ranking, statistics, table        *)
(* extraction and normalisation, MySQL save/load) and the Streamlit        *)
(* script main() that drives them.                                         *)
(*                                                                         *)
(* A text is a sequence of one-character strings.  A token, a sentence     *)
(* and a column name are texts too.                                        *)
(***************************************************************************)
EXTENDS Integers, Sequences, FiniteSets, TLC

VARIABLES
    pc,         \* position of the function-level specifications
    arg,        \* the argument record of the function under study
    res,        \* its result
    store,      \* the MySQL table invoice_data: NoTable or a DataFrame
    session,    \* st.session_state: the keys main() sets, or Unset
    button,     \* TRUE when the last render showed the "Load Data" button
    last        \* what the last script run did (history, for the properties)

vars == <<pc, arg, res, store, session, button, last>>

(***************************************************************************)
(* Bounds of the model.                                                    *)
(***************************************************************************)
MaxLen == 5         \* length of the raw texts given to clean_text
MaxSents == 3       \* sentences of a document given to the analytic stages
MaxN == 3           \* largest max_sentences / top_n tried
MaxPages == 3       \* pages of a PDF given to extract_tables_from_pdf
MaxMainPages == 1   \* pages of a PDF uploaded to main()

(***************************************************************************)
(* The keys of the dict analyze_document_stats returns, in its order.      *)
(***************************************************************************)
StatKeys == {"characters", "words", "sentences", "paragraphs",
             "avg_sentence_length", "avg_word_length"}

\* The dict itself, from the six values.
DocumentStats(characters, words, sentences, paragraphs, avg_sentence_length, avg_word_length) ==
    [characters |-> characters,
     words |-> words,
     sentences |-> sentences,
     paragraphs |-> paragraphs,
     avg_sentence_length |-> avg_sentence_length,
     avg_word_length |-> avg_word_length]

(***************************************************************************)
(* Characters.                                                             *)
(***************************************************************************)
Upper == {"C", "F"}
LowerLetters == {"a", "c", "d", "e", "f", "h", "i", "n", "s", "t", "w", "m"}
Digits == {"1"}

\* str.lower() on one character.
LowerChar(c) ==
    CASE c = "C" -> "c"
      [] c = "F" -> "f"
      [] OTHER -> c

\* \s of the re module.
IsSpace(c) == c \in {" ", "\n"}

\* \w of the re module: letters, digits and the underscore.
IsWordChar(c) == c \in Upper \cup LowerLetters \cup Digits \cup {"_"}

\* str.isalnum() on one character.
IsAlnumChar(c) == c \in Upper \cup LowerLetters \cup Digits

\* The characters the second re.sub of clean_text keeps:
\* [\w\s\.\,\!\?\;\:\-\(\)].
KeptChar(c) ==
    IsWordChar(c) \/ IsSpace(c) \/ c \in {".", ",", "!", "?", ";", ":", "-", "(", ")"}

\* str.lower().
Lower(s) == [i \in 1..Len(s) |-> LowerChar(s[i])]

\* str.strip(): leading and trailing whitespace removed.
RECURSIVE LStrip(_)
LStrip(s) ==
    IF s # <<>> /\ IsSpace(Head(s)) THEN LStrip(Tail(s)) ELSE s

RECURSIVE RStrip(_)
RStrip(s) ==
    IF s # <<>> /\ IsSpace(s[Len(s)]) THEN RStrip(SubSeq(s, 1, Len(s) - 1)) ELSE s

Strip(s) == RStrip(LStrip(s))

(***************************************************************************)
(* clean_text                                                              *)
(***************************************************************************)
\* re.sub(r'\s+', ' ', text): every maximal run of whitespace becomes one
\* space.
RECURSIVE CollapseWhitespace(_)
CollapseWhitespace(s) ==
    IF s = <<>> THEN <<>>
    ELSE IF IsSpace(Head(s))
         THEN <<" ">> \o CollapseWhitespace(LStrip(s))
         ELSE <<Head(s)>> \o CollapseWhitespace(Tail(s))

\* re.sub(r'[^\w\s\.\,\!\?\;\:\-\(\)]', '', text).
RemoveDisallowed(s) == SelectSeq(s, KeptChar)

clean_text(text) ==
    IF text = <<>> THEN <<>>
    ELSE Strip(RemoveDisallowed(CollapseWhitespace(text)))

(***************************************************************************)
(* The NLTK capabilities, on the texts of this model: letters, digits,     *)
(* whitespace and the full stop.                                           *)
(***************************************************************************)
\* str.split(): the maximal runs of non-whitespace characters.
RECURSIVE SplitAcc(_, _, _)
SplitAcc(s, cur, out) ==
    IF s = <<>> THEN (IF cur = <<>> THEN out ELSE Append(out, cur))
    ELSE IF IsSpace(Head(s))
         THEN SplitAcc(Tail(s), <<>>, IF cur = <<>> THEN out ELSE Append(out, cur))
         ELSE SplitAcc(Tail(s), Append(cur, Head(s)), out)

SplitWhitespace(s) == SplitAcc(s, <<>>, <<>>)

\* sent_tokenize: a full stop followed by whitespace ends a sentence; a
\* sentence is the stripped span up to and including its full stop, and what
\* follows the last break is the last sentence.
RECURSIVE SentAcc(_, _, _)
SentAcc(s, cur, out) ==
    IF s = <<>>
    THEN (IF Strip(cur) = <<>> THEN out ELSE Append(out, Strip(cur)))
    ELSE IF Head(s) = "." /\ Tail(s) # <<>> /\ IsSpace(Head(Tail(s)))
         THEN SentAcc(Tail(s), <<>>, Append(out, Strip(Append(cur, "."))))
         ELSE SentAcc(Tail(s), Append(cur, Head(s)), out)

sent_tokenize(text) == SentAcc(text, <<>>, <<>>)

\* The Treebank tokenizer on one sentence: split at whitespace, and the
\* sentence-final full stop is a token of its own.
TreebankTokens(sent) ==
    LET toks == SplitWhitespace(sent)
        n == Len(toks)
        t == toks[n]
    IN  IF n = 0 THEN <<>>
        ELSE IF Len(t) > 1 /\ t[Len(t)] = "." /\ t[Len(t) - 1] # "."
             THEN SubSeq(toks, 1, n - 1) \o <<SubSeq(t, 1, Len(t) - 1), <<".">>>>
             ELSE toks

RECURSIVE FlattenTokens(_)
FlattenTokens(sents) ==
    IF sents = <<>> THEN <<>>
    ELSE TreebankTokens(Head(sents)) \o FlattenTokens(Tail(sents))

\* word_tokenize: the Treebank tokens of every sentence of the text.
word_tokenize(text) == FlattenTokens(sent_tokenize(text))

\* str.isalnum().
IsAlnum(w) == w # <<>> /\ \A i \in 1..Len(w) : IsAlnumChar(w[i])

\* stopwords.words('english'), the entries over the model's letters.
StopWords == {<<"a">>, <<"i">>, <<"a", "n">>, <<"i", "n">>, <<"i", "s">>,
              <<"t", "h", "e">>, <<"c", "a", "n">>, <<"h", "i", "s">>}

\* The WordNet nouns over the model's letters.
WordNetNouns == {<<"c", "a", "t">>, <<"f", "i", "s", "h">>, <<"c", "a", "n">>,
                 <<"i", "d">>, <<"s", "w", "i", "m">>}

\* WordNetLemmatizer.lemmatize(word), part of speech noun: the shortest
\* WordNet noun among the word and the word without its plural "s",
\* the word itself when there is none.
Lemmatize(w) ==
    IF Len(w) > 1 /\ w[Len(w)] = "s" /\ SubSeq(w, 1, Len(w) - 1) \in WordNetNouns
    THEN SubSeq(w, 1, Len(w) - 1)
    ELSE w

(***************************************************************************)
(* collections.Counter and dict, as sequences of <<key, value>> pairs in   *)
(* insertion order.                                                        *)
(***************************************************************************)
HasKey(d, k) == \E i \in 1..Len(d) : d[i][1] = k

KeyIndex(d, k) == CHOOSE i \in 1..Len(d) : d[i][1] = k

\* d[k] of a Counter: 0 for a missing key.
CountOf(d, k) == IF HasKey(d, k) THEN d[KeyIndex(d, k)][2] ELSE 0

\* d[k] = v of a dict: a present key keeps its place.
DictSet(d, k, v) ==
    IF HasKey(d, k) THEN [d EXCEPT ![KeyIndex(d, k)] = <<k, v>>]
    ELSE Append(d, <<k, v>>)

RECURSIVE CounterAcc(_, _)
CounterAcc(tokens, d) ==
    IF tokens = <<>> THEN d
    ELSE CounterAcc(Tail(tokens), DictSet(d, Head(tokens), CountOf(d, Head(tokens)) + 1))

\* Counter(tokens).
Counter(tokens) == CounterAcc(tokens, <<>>)

\* A sort that puts an item before the earlier items of its value.
InsertByValueDescTiesReversed(sorted, x) ==
    LET p == Cardinality({i \in 1..Len(sorted) : sorted[i][2] > x[2]})
    IN  SubSeq(sorted, 1, p) \o <<x>> \o SubSeq(sorted, p + 1, Len(sorted))

\* sorted(items, key=lambda x: x[1], reverse=True): stable, so items of equal
\* value keep their order.
InsertByValueDesc(sorted, x) ==
    LET p == Cardinality({i \in 1..Len(sorted) : sorted[i][2] >= x[2]})
    IN  SubSeq(sorted, 1, p) \o <<x>> \o SubSeq(sorted, p + 1, Len(sorted))

RECURSIVE SortedByValueDesc(_)
SortedByValueDesc(items) ==
    IF items = <<>> THEN <<>>
    ELSE InsertByValueDesc(SortedByValueDesc(SubSeq(items, 1, Len(items) - 1)),
                           items[Len(items)])

\* seq[:n] for n >= 0.
Prefix(seq, n) == SubSeq(seq, 1, IF n < Len(seq) THEN n ELSE Len(seq))

\* Counter.most_common(n).
most_common(d, n) == Prefix(SortedByValueDesc(d), n)

\* list.index(x): the 1-based position of the first occurrence.
ListIndex(seq, x) == CHOOSE i \in 1..Len(seq) :
    seq[i] = x /\ \A j \in 1..(i - 1) : seq[j] # x

(***************************************************************************)
(* extract_keywords                                                        *)
(***************************************************************************)
\* The filter of line 129: alphanumeric, no stopword, longer than 2.
Qualifies(w) == IsAlnum(w) /\ w \notin StopWords /\ Len(w) > 2

LemmatizeAll(tokens) == [i \in 1..Len(tokens) |-> Lemmatize(tokens[i])]

\* The tokens counted: filtered first, lemmatized after.
keyword_tokens(text) ==
    LemmatizeAll(SelectSeq(word_tokenize(Lower(text)), Qualifies))

extract_keywords(text, top_n) ==
    IF text = <<>> THEN <<>>
    ELSE most_common(Counter(keyword_tokens(text)), top_n)

(***************************************************************************)
(* generate_summary                                                        *)
(***************************************************************************)
\* The raw frequency table of line 148.
raw_word_freq(text) == Counter(word_tokenize(Lower(text)))

RECURSIVE SumCounts(_, _)
SumCounts(words, freq) ==
    IF words = <<>> THEN 0
    ELSE (IF IsAlnum(Head(words)) THEN CountOf(freq, Head(words)) ELSE 0)
         + SumCounts(Tail(words), freq)

\* A score that leaves the stopwords out.
sentence_score_without_stopwords(sentence, freq) ==
    SumCounts(SelectSeq(word_tokenize(Lower(sentence)), LAMBDA w : w \notin StopWords), freq)

\* The score of one sentence (lines 152-153).
sentence_score(sentence, freq) == SumCounts(word_tokenize(Lower(sentence)), freq)

\* The dict sentence_scores of lines 150-154, keyed by the sentence text.
RECURSIVE ScoresAcc(_, _, _)
ScoresAcc(sentences, freq, d) ==
    IF sentences = <<>> THEN d
    ELSE ScoresAcc(Tail(sentences), freq,
                   DictSet(d, Head(sentences), sentence_score(Head(sentences), freq)))

sentence_scores(text) == ScoresAcc(sent_tokenize(text), raw_word_freq(text), <<>>)

\* Line 157.
top_sentences(text, max_sentences) ==
    Prefix(SortedByValueDesc(sentence_scores(text)), max_sentences)

\* sorted(top_sentences, key=lambda x: sentences.index(x[0])).
InsertByIndex(sorted, x, sentences) ==
    LET p == Cardinality({i \in 1..Len(sorted) :
                 ListIndex(sentences, sorted[i][1]) <= ListIndex(sentences, x[1])})
    IN  SubSeq(sorted, 1, p) \o <<x>> \o SubSeq(sorted, p + 1, Len(sorted))

\* The selected sentences left in score order.
SortedByIndexSkipped(items, sentences) == items

RECURSIVE SortedByIndex(_, _)
SortedByIndex(items, sentences) ==
    IF items = <<>> THEN <<>>
    ELSE InsertByIndex(SortedByIndex(SubSeq(items, 1, Len(items) - 1), sentences),
                       items[Len(items)], sentences)

\* Line 158: the selected sentences, in the order of the summary.
summary_sentences(text, max_sentences) ==
    LET ordered == SortedByIndex(top_sentences(text, max_sentences), sent_tokenize(text))
    IN  [i \in 1..Len(ordered) |-> ordered[i][1]]

\* ' '.join(list).
RECURSIVE Join(_)
Join(list) ==
    IF list = <<>> THEN <<>>
    ELSE IF Len(list) = 1 THEN list[1]
    ELSE list[1] \o <<" ">> \o Join(Tail(list))

generate_summary(text, max_sentences) ==
    IF text = <<>> THEN <<>>
    ELSE Join(summary_sentences(text, max_sentences))

(***************************************************************************)
(* analyze_document_stats                                                  *)
(***************************************************************************)
\* len(text.split('\n\n')).
RECURSIVE SplitBlankLineCount(_)
SplitBlankLineCount(s) ==
    IF Len(s) < 2 THEN 1
    ELSE IF s[1] = "\n" /\ s[2] = "\n"
         THEN 1 + SplitBlankLineCount(SubSeq(s, 3, Len(s)))
         ELSE SplitBlankLineCount(Tail(s))

RECURSIVE TotalLen(_)
TotalLen(words) == IF words = <<>> THEN 0 ELSE Len(Head(words)) + TotalLen(Tail(words))

\* a / b if b else 0, as the pair <<numerator, denominator>>.
Ratio(a, b) == IF b # 0 THEN <<a, b>> ELSE <<0, 1>>

\* The dict {}.
EmptyDict == [k \in {} |-> 0]

analyze_document_stats(text) ==
    IF text = <<>> THEN EmptyDict
    ELSE LET sentences == sent_tokenize(text)
             words == word_tokenize(text)
         IN  DocumentStats(Len(text),
                           Len(words),
                           Len(sentences),
                           SplitBlankLineCount(text),
                           Ratio(Len(words), Len(sentences)),
                           Ratio(TotalLen(words), Len(words)))

(***************************************************************************)
(* DataFrames.  A cell is None, NaN, a string or an integer; a frame is    *)
(* its column names and its rows, each row as long as the columns.         *)
(***************************************************************************)
None == <<"none">>
NaN == <<"nan">>
StrCell(s) == <<"str", s>>
IntCell(i) == <<"int", i>>

\* pandas.isna.
IsNA(cell) == cell = None \/ cell = NaN

\* pd.DataFrame().
EmptyFrame == [columns |-> <<>>, rows |-> <<>>]

\* DataFrame.empty: an axis of length 0.
IsEmpty(df) == Len(df.columns) = 0 \/ Len(df.rows) = 0

HasColumn(df, name) == \E j \in 1..Len(df.columns) : df.columns[j] = name

ColumnIndex(df, name) == CHOOSE j \in 1..Len(df.columns) : df.columns[j] = name

\* pd.DataFrame(table[1:], columns=table[0]).
MakeFrame(table) == [columns |-> Head(table), rows |-> Tail(table)]

\* df[name] = value: a new column goes last, an existing one is overwritten.
SetColumn(df, name, cell) ==
    IF HasColumn(df, name)
    THEN [df EXCEPT !.rows =
             [r \in 1..Len(df.rows) |->
                 [df.rows[r] EXCEPT ![ColumnIndex(df, name)] = cell]]]
    ELSE [columns |-> Append(df.columns, name),
          rows |-> [r \in 1..Len(df.rows) |-> Append(df.rows[r], cell)]]

\* "page"
PageColumn == <<"p", "a", "g", "e">>

\* The columns of the frames, each at its first appearance.
RECURSIVE UnionColumns(_, _)
UnionColumns(frames, acc) ==
    IF frames = <<>> THEN acc
    ELSE UnionColumns(Tail(frames),
                      acc \o SelectSeq(Head(frames).columns,
                                       LAMBDA c : \A j \in 1..Len(acc) : acc[j] # c))

\* A frame's rows over the columns cols: NaN where the frame has no such column.
Reindexed(df, cols) ==
    [r \in 1..Len(df.rows) |->
        [j \in 1..Len(cols) |->
            IF HasColumn(df, cols[j]) THEN df.rows[r][ColumnIndex(df, cols[j])] ELSE NaN]]

RECURSIVE ConcatRows(_, _)
ConcatRows(frames, cols) ==
    IF frames = <<>> THEN <<>>
    ELSE Reindexed(Head(frames), cols) \o ConcatRows(Tail(frames), cols)

\* pd.concat(frames, ignore_index=True).
Concat(frames) ==
    LET cols == UnionColumns(frames, <<>>)
    IN  [columns |-> cols, rows |-> ConcatRows(frames, cols)]

(***************************************************************************)
(* A PDF is its pages.  page.extract_text() gives None or a text, or       *)
(* raises; page.extract_table() gives None or a table (the header row and  *)
(* the body rows), or raises.                                              *)
(***************************************************************************)
Page(text_kind, text, table_kind, table) ==
    [text |-> text, table |-> table, text_kind |-> text_kind, table_kind |-> table_kind]

\* Lines 65-70: the frames of the pages that have a table, page numbers from 1.
RECURSIVE PageFrames(_, _)
PageFrames(pages, page_num) ==
    IF pages = <<>> THEN <<>>
    ELSE (IF Head(pages).table_kind = "table" /\ Head(pages).table # <<>>
          THEN <<SetColumn(MakeFrame(Head(pages).table), PageColumn, IntCell(page_num + 1))>>
          ELSE <<>>)
         \o PageFrames(Tail(pages), page_num + 1)

\* The except clause of line 75 covers the whole loop: one page that raises
\* ends the call with an empty frame.
extract_tables_from_pdf(pages) ==
    IF \E k \in 1..Len(pages) : pages[k].table_kind = "raise"
    THEN EmptyFrame
    ELSE LET dataframes == PageFrames(pages, 0)
         IN  IF dataframes # <<>> THEN Concat(dataframes) ELSE EmptyFrame

\* str.replace(" ", "_").
SpacesToUnderscores(s) == [i \in 1..Len(s) |-> IF s[i] = " " THEN "_" ELSE s[i]]

\* col.strip().lower().replace(" ", "_").
clean_column(col) == SpacesToUnderscores(Lower(Strip(col)))

\* df.fillna("N/A"): None and NaN become the string, nothing else changes.
fillna(rows) ==
    [r \in 1..Len(rows) |->
        [j \in 1..Len(rows[r]) |-> IF IsNA(rows[r][j]) THEN StrCell("N/A") ELSE rows[r][j]]]

transform_data(df) ==
    IF IsEmpty(df) THEN df
    ELSE [columns |-> [j \in 1..Len(df.columns) |-> clean_column(df.columns[j])],
          rows |-> fillna(df.rows)]

\* Lines 51-55 of extract_text_from_pdf: the texts of the pages that have one,
\* a newline after each.
RECURSIVE PageTexts(_)
PageTexts(pages) ==
    IF pages = <<>> THEN <<>>
    ELSE (IF Head(pages).text_kind = "text" /\ Head(pages).text # <<>>
          THEN Head(pages).text \o <<"\n">>
          ELSE <<>>)
         \o PageTexts(Tail(pages))

\* extract_text_from_pdf: [none |-> TRUE] is None, returned when a page raises.
extract_text_from_pdf(pages) ==
    IF \E k \in 1..Len(pages) : pages[k].text_kind = "raise"
    THEN [none |-> TRUE, text |-> <<>>]
    ELSE [none |-> FALSE, text |-> Strip(PageTexts(pages))]

(***************************************************************************)
(* Values the variables of the other specifications rest at.               *)
(***************************************************************************)
\* The table invoice_data does not exist.
NoTable == [exists |-> FALSE, df |-> EmptyFrame]

\* st.session_state before any upload.
NoSession ==
    [has_results |-> FALSE, pdf_text |-> <<>>, summary |-> <<>>, keywords |-> <<>>,
     stats |-> EmptyDict, tables_df |-> EmptyFrame,
     has_db_data |-> FALSE, db_data |-> EmptyFrame]

NoRun ==
    [op |-> "none", uploaded |-> FALSE, text_ok |-> FALSE, show_tables |-> FALSE,
     persist |-> FALSE, dataset |-> EmptyFrame, table_stage |-> FALSE,
     recorded |-> FALSE, save_called |-> FALSE, loaded |-> FALSE,
     read |-> EmptyFrame, fault_seen |-> FALSE]

Idle ==
    /\ store = NoTable
    /\ session = NoSession
    /\ button = FALSE
    /\ last = NoRun

\* All sequences over A of length at most n.
SeqsUpTo(A, n) == UNION {[1..k -> A] : k \in 0..n}

(***************************************************************************)
(* SpecClean: clean_text applied to a raw text, and to its own result.     *)
(***************************************************************************)
RawAlphabet == {"a", " ", "\n", "#"}

RawTexts == SeqsUpTo(RawAlphabet, MaxLen)

InitClean ==
    /\ pc = "raw"
    /\ arg \in [text : RawTexts]
    /\ res = <<>>
    /\ Idle

CleanOnce ==
    /\ pc = "raw"
    /\ res' = [once |-> clean_text(arg.text)]
    /\ pc' = "cleaned"
    /\ UNCHANGED <<arg, store, session, button, last>>

CleanTwice ==
    /\ pc = "cleaned"
    /\ res' = [once |-> res.once, twice |-> clean_text(res.once)]
    /\ pc' = "recleaned"
    /\ UNCHANGED <<arg, store, session, button, last>>

NextClean == CleanOnce \/ CleanTwice

SpecClean == InitClean /\ [][NextClean]_vars

(***************************************************************************)
(* SpecText: one analytic stage applied to a document's text.              *)
(***************************************************************************)
\* "Cats eat fish."
SentCatsEatFish == <<"C", "a", "t", "s", " ", "e", "a", "t", " ", "f", "i", "s", "h", ".">>
\* "Fish swim."
SentFishSwim == <<"F", "i", "s", "h", " ", "s", "w", "i", "m", ".">>
\* "a cat cans ids."
SentCatCansIds == <<"a", " ", "c", "a", "t", " ", "c", "a", "n", "s", " ", "i", "d", "s", ".">>
\* "eat."
SentEat == <<"e", "a", "t", ".">>

SentencePool == {SentCatsEatFish, SentFishSwim, SentCatCansIds, SentEat}

\* A document's text: its sentences, one space between two.
Documents == {Join(d) : d \in SeqsUpTo(SentencePool, MaxSents)}

InitText ==
    /\ pc = "text"
    /\ arg \in [text : Documents, n : 0..MaxN]
    /\ res = <<>>
    /\ Idle

Summarize ==
    /\ pc = "text"
    /\ res' = [op |-> "summary",
               summary |-> generate_summary(arg.text, arg.n),
               sentences |-> IF arg.text = <<>> THEN <<>>
                             ELSE summary_sentences(arg.text, arg.n)]
    /\ pc' = "done"
    /\ UNCHANGED <<arg, store, session, button, last>>

Keywords ==
    /\ pc = "text"
    /\ res' = [op |-> "keywords", keywords |-> extract_keywords(arg.text, arg.n)]
    /\ pc' = "done"
    /\ UNCHANGED <<arg, store, session, button, last>>

Stats ==
    /\ pc = "text"
    /\ res' = [op |-> "stats", stats |-> analyze_document_stats(arg.text)]
    /\ pc' = "done"
    /\ UNCHANGED <<arg, store, session, button, last>>

NextText == Summarize \/ Keywords \/ Stats

SpecText == InitText /\ [][NextText]_vars

(***************************************************************************)
(* SpecTables: extract_tables_from_pdf on a PDF, transform_data on its     *)
(* result.                                                                 *)
(***************************************************************************)
\* "Cat id", "Fee", " fee ", "date"
ColCatId == <<"C", "a", "t", " ", "i", "d">>
ColFee == <<"F", "e", "e">>
ColFeePadded == <<" ", "f", "e", "e", " ">>
ColDate == <<"d", "a", "t", "e">>

TableWidget == <<<<ColCatId, ColFee>>, <<StrCell("Widget"), StrCell("10")>>>>
TableGaps == <<<<ColFee, ColDate>>, <<None, StrCell("")>>, <<StrCell("7"), StrCell("x")>>>>
TablePadded == <<<<ColFeePadded>>, <<StrCell("3")>>>>
TableHeaderOnly == <<<<ColCatId>>>>

TablePool == {TableWidget, TableGaps, TablePadded, TableHeaderOnly}

\* The pages of the table specifications carry no text.
TablePages ==
    {Page("none", <<>>, "none", <<>>), Page("none", <<>>, "raise", <<>>)}
    \cup {Page("none", <<>>, "table", t) : t \in TablePool}

InitTables ==
    /\ pc = "pdf"
    /\ arg \in [pages : SeqsUpTo(TablePages, MaxPages) \ {<<>>}]
    /\ res = <<>>
    /\ Idle

ExtractTables ==
    /\ pc = "pdf"
    /\ res' = [raw |-> extract_tables_from_pdf(arg.pages)]
    /\ pc' = "extracted"
    /\ UNCHANGED <<arg, store, session, button, last>>

TransformData ==
    /\ pc = "extracted"
    /\ res' = [raw |-> res.raw, out |-> transform_data(res.raw)]
    /\ pc' = "transformed"
    /\ UNCHANGED <<arg, store, session, button, last>>

NextTables == ExtractTables \/ TransformData

SpecTables == InitTables /\ [][NextTables]_vars

(***************************************************************************)
(* Spec: the script main(), run again by Streamlit at every interaction:   *)
(* an upload or a change of the sidebar, or a click on "Load Data from     *)
(* Database".                                                              *)
(***************************************************************************)
DefaultMaxSentences == 5
DefaultTopKeywords == 10

\* df.to_sql(..., if_exists='replace') raises when the store is down, and on
\* two columns of one name.
to_sql_raises(df, fault) ==
    \/ fault = "save"
    \/ \E i, j \in 1..Len(df.columns) : i < j /\ df.columns[i] = df.columns[j]

\* load_to_mysql: True when the frame was written.
load_to_mysql(df, fault) == ~to_sql_raises(df, fault)

\* What SELECT * gives back for a cell written by to_sql: NULL for a missing
\* value.
FromSql(cell) == IF IsNA(cell) THEN None ELSE cell

\* load_data_from_mysql: the table's frame, an empty frame when the read
\* raises (the store is down, or the table does not exist).
load_data_from_mysql(st, fault) ==
    IF fault = "read" \/ ~st.exists THEN EmptyFrame
    ELSE [columns |-> st.df.columns,
          rows |-> [r \in 1..Len(st.df.rows) |->
                       [j \in 1..Len(st.df.rows[r]) |-> FromSql(st.df.rows[r][j])]]]

\* "Cats eat."
SentCatsEat == <<"C", "a", "t", "s", " ", "e", "a", "t", ".">>

MainPages ==
    {Page("text", SentCatsEat, "none", <<>>),
     Page("text", SentFishSwim, "table", TableWidget),
     Page("none", <<>>, "table", TableGaps),
     Page("raise", <<>>, "table", TableWidget),
     Page("text", SentEat, "raise", <<>>),
     Page("text", <<"#">>, "none", <<>>)}

MainFiles == SeqsUpTo(MainPages, MaxMainPages) \ {<<>>}

\* Lines 312-334 for the uploaded PDF, up to the save: the part of a run that
\* depends on the PDF and on show_tables alone.  The fields after text_ok are
\* computed under "if text" (line 314) and are empty without it.
process_pdf(pages, show_tables) ==
    LET text == extract_text_from_pdf(pages)
        text_ok == ~text.none /\ text.text # <<>>
        cleaned_text == clean_text(text.text)
        extracted == IF text_ok /\ show_tables THEN extract_tables_from_pdf(pages)
                     ELSE EmptyFrame
    IN  [pdf_text |-> IF text_ok THEN cleaned_text ELSE <<>>,
         summary |-> IF text_ok THEN generate_summary(cleaned_text, DefaultMaxSentences)
                     ELSE <<>>,
         keywords |-> IF text_ok THEN extract_keywords(cleaned_text, DefaultTopKeywords)
                      ELSE <<>>,
         stats |-> IF text_ok THEN analyze_document_stats(cleaned_text) ELSE EmptyDict,
         \* line 333: if not tables_df.empty
         tables_df |-> IF ~IsEmpty(extracted) THEN transform_data(extracted)
                       ELSE extracted,
         text_ok |-> text_ok,
         table_stage |-> text_ok /\ show_tables,
         found |-> ~IsEmpty(extracted)]

\* What the table stage makes of a PDF when it is run: the normalized dataset
\* of the run.
run_dataset(pages, show_tables) ==
    IF show_tables THEN transform_data(extract_tables_from_pdf(pages)) ELSE EmptyFrame

\* The script without an uploaded file.
NoFile == <<>>

\* The rest of a run, lines 336-512, given what process_pdf made of the
\* upload: the save, the session, the tabs and the load button.  click is
\* the load button pressed (it can be only when the last render showed it),
\* fault what the store refuses in this run.
finish_run(uploaded, p, dataset, show_tables, save_to_db, click, fault) ==
    LET text_ok == uploaded /\ p.text_ok
        save_called == text_ok /\ p.found /\ save_to_db
        saved == save_called /\ load_to_mysql(p.tables_df, fault)
        store1 == IF saved THEN [exists |-> TRUE, df |-> p.tables_df] ELSE store
        session1 ==
            IF text_ok
            THEN [session EXCEPT
                     !.has_results = TRUE,
                     !.pdf_text = p.pdf_text,
                     !.summary = p.summary,
                     !.keywords = p.keywords,
                     !.stats = p.stats,
                     !.tables_df = p.tables_df]
            ELSE session
        \* line 360: the tabs are drawn when results are in the session; line
        \* 387 reads uploaded_file.name and raises without a file, which ends
        \* the run before the database tab.
        tabs == session1.has_results
        database_tab == tabs /\ uploaded
        load == database_tab /\ click
        db_data == load_data_from_mysql(store1, fault)
    IN  /\ click => button
        /\ store' = store1
        /\ session' = IF load /\ ~IsEmpty(db_data)
                      THEN [session1 EXCEPT !.has_db_data = TRUE, !.db_data = db_data]
                      ELSE session1
        /\ button' = database_tab
        /\ last' = [op |-> "main",
                    uploaded |-> uploaded,
                    text_ok |-> text_ok,
                    show_tables |-> show_tables,
                    persist |-> save_to_db,
                    dataset |-> IF uploaded THEN dataset ELSE EmptyFrame,
                    table_stage |-> uploaded /\ p.table_stage,
                    recorded |-> text_ok,
                    save_called |-> save_called,
                    loaded |-> load,
                    read |-> IF load THEN db_data ELSE EmptyFrame,
                    fault_seen |-> \/ last.fault_seen
                                   \/ save_called /\ ~saved
                                   \/ load /\ (fault = "read" \/ ~store1.exists)]
        /\ UNCHANGED <<pc, arg, res>>

\* One run of the script: file is the uploaded PDF or NoFile, show_tables and
\* save_to_db the checkboxes of the sidebar.
main(file, show_tables) ==
    LET p == process_pdf(file, show_tables)
        dataset == run_dataset(file, show_tables)
    IN  \E save_to_db \in BOOLEAN, click \in BOOLEAN, fault \in {"none", "save", "read"} :
            finish_run(file # NoFile, p, dataset, show_tables, save_to_db, click, fault)

Init ==
    /\ pc = "main"
    /\ arg = <<>>
    /\ res = <<>>
    /\ Idle

Next ==
    \E file \in MainFiles \cup {NoFile}, show_tables \in BOOLEAN :
        main(file, show_tables)

Spec == Init /\ [][Next]_vars

(***************************************************************************)
(* Properties of the table functions.                                      *)
(***************************************************************************)
\* The pages, a page whose table detection raises taken as a page without
\* a table.
FailuresSkipped(pages) ==
    [k \in 1..Len(pages) |->
        IF pages[k].table_kind = "raise"
        THEN [pages[k] EXCEPT !.table_kind = "none"]
        ELSE pages[k]]

\* C1: with one page whose table detection fails, the dataset returned holds,
\* in page order, the rows of the tables of every other page.
C1_PageFailureSkipped ==
    (pc = "extracted"
     /\ Cardinality({k \in 1..Len(arg.pages) : arg.pages[k].table_kind = "raise"}) = 1)
    => res.raw.rows = extract_tables_from_pdf(FailuresSkipped(arg.pages)).rows

\* C8: after transform_data no cell is missing or empty: None, NaN and the
\* empty string have all become "N/A".
C8_NoMissingCell ==
    pc = "transformed" =>
        \A r \in 1..Len(res.out.rows) : \A j \in 1..Len(res.out.rows[r]) :
            /\ ~IsNA(res.out.rows[r][j])
            /\ res.out.rows[r][j] # StrCell("")

\* A column name that is lowercase, has no whitespace at either end and
\* holds no space.
IsNormalizedName(name) ==
    /\ \A i \in 1..Len(name) : name[i] \notin Upper /\ name[i] # " "
    /\ name # <<>> => ~IsSpace(name[1]) /\ ~IsSpace(name[Len(name)])

\* C11: every column name of the dataset transform_data returns is lowercase,
\* trimmed and without a space, a dataset with a header and no body row
\* included; the rows are the rows given, every cell that held a value with
\* that value.
C11_ColumnNamesNormalized ==
    pc = "transformed" =>
        /\ \A j \in 1..Len(res.out.columns) : IsNormalizedName(res.out.columns[j])
        /\ Len(res.out.rows) = Len(res.raw.rows)
        /\ \A r \in 1..Len(res.raw.rows) : \A j \in 1..Len(res.raw.rows[r]) :
               ~IsNA(res.raw.rows[r][j]) => res.out.rows[r][j] = res.raw.rows[r][j]

(***************************************************************************)
(* Properties of the text functions.                                       *)
(***************************************************************************)
\* The position of the first occurrence of x in seq.
FirstOccurrence(seq, x) == CHOOSE i \in 1..Len(seq) :
    seq[i] = x /\ \A j \in 1..(i - 1) : seq[j] # x

\* The number of positions of seq holding x.
Occurrences(seq, x) == Cardinality({i \in 1..Len(seq) : seq[i] = x})

\* The members of a set of positions, ascending.
Ascending(P) ==
    [k \in 1..Cardinality(P) |->
        CHOOSE i \in P : Cardinality({j \in P : j < i}) = k - 1]

\* C4: clean_text is idempotent: cleaning a cleaned text changes nothing.
C4_CleanIdempotent ==
    pc = "recleaned" => res.twice = res.once

\* C5: the sentences of the summary are a subsequence of the document's
\* sentences, each at its first occurrence, and they are at most
\* max_sentences and at most the number of sentences.
C5_SummarySubsequence ==
    (pc = "done" /\ res.op = "summary") =>
        LET S == sent_tokenize(arg.text)
            R == res.sentences
        IN  /\ Len(R) <= arg.n
            /\ Len(R) <= Len(S)
            /\ \A k \in 1..Len(R) : \E i \in 1..Len(S) : S[i] = R[k]
            /\ \A k, l \in 1..Len(R) :
                   k < l => FirstOccurrence(S, R[k]) < FirstOccurrence(S, R[l])

\* The sentences of seq hold a repeated text.
HasRepeat(seq) == \E i, j \in 1..Len(seq) : i < j /\ seq[i] = seq[j]

\* A summary of a document that repeats a sentence, shorter than the
\* document, whose first sentence scores less than its second.
C5_Witness ==
    /\ pc = "done" /\ res.op = "summary"
    /\ HasRepeat(sent_tokenize(arg.text))
    /\ Len(res.sentences) = 2
    /\ Len(res.sentences) < Len(sent_tokenize(arg.text))
    /\ sentence_score(res.sentences[1], raw_word_freq(arg.text))
           < sentence_score(res.sentences[2], raw_word_freq(arg.text))

\* The score the specification gives a sentence: over its alphanumeric
\* lowercase tokens, the sum of the token's occurrences among the lowercase
\* tokens of the whole text.
RECURSIVE SumOccurrences(_, _)
SumOccurrences(words, all) ==
    IF words = <<>> THEN 0
    ELSE (IF IsAlnum(Head(words)) THEN Occurrences(all, Head(words)) ELSE 0)
         + SumOccurrences(Tail(words), all)

ExpectedScore(sentence, text) ==
    SumOccurrences(word_tokenize(Lower(sentence)), word_tokenize(Lower(text)))

\* The sentences at the n best positions of P, in document order: a position
\* is better when its score is higher, or equal and the position earlier.
BestOf(P, S, text, n) ==
    LET Better(i, j) ==
            \/ ExpectedScore(S[i], text) > ExpectedScore(S[j], text)
            \/ ExpectedScore(S[i], text) = ExpectedScore(S[j], text) /\ i < j
        Sel == {i \in P : Cardinality({j \in P : Better(j, i)}) < n}
        asc == Ascending(Sel)
    IN  [k \in 1..Len(asc) |-> S[asc[k]]]

\* C6 as stated: the summary is the max_sentences highest-scoring sentences
\* of the sentence sequence, all of them when there are fewer.
C6_TopNOfSequence ==
    (pc = "done" /\ res.op = "summary") =>
        LET S == sent_tokenize(arg.text)
        IN  res.sentences = BestOf(1..Len(S), S, arg.text, arg.n)

\* C6 amended: the summary is the max_sentences highest-scoring distinct
\* sentence texts, a repeated text counting once, at its first occurrence.
C6_TopNOfDistinct ==
    (pc = "done" /\ res.op = "summary") =>
        LET S == sent_tokenize(arg.text)
            First == {i \in 1..Len(S) : \A j \in 1..(i - 1) : S[j] # S[i]}
        IN  res.sentences = BestOf(First, S, arg.text, arg.n)

\* A summary of one sentence out of a document that repeats a sentence and
\* holds another sentence of the same score as the one selected.
C6_Witness ==
    /\ pc = "done" /\ res.op = "summary"
    /\ arg.n = 1 /\ Len(res.sentences) = 1
    /\ LET S == sent_tokenize(arg.text)
       IN  /\ HasRepeat(S)
           /\ \E i \in 1..Len(S) :
                  /\ S[i] # res.sentences[1]
                  /\ ExpectedScore(S[i], arg.text) = ExpectedScore(res.sentences[1], arg.text)

\* C7: no keyword returned is a stopword or has length <= 2.
C7_NoStopwordNoShort ==
    (pc = "done" /\ res.op = "keywords") =>
        \A i \in 1..Len(res.keywords) :
            /\ res.keywords[i][1] \notin StopWords
            /\ Len(res.keywords[i][1]) > 2

\* C9: on the empty text the summary is empty, the keyword list is empty and
\* the statistics hold the six fields, all zero.
C9_EmptyTextAllZero ==
    (pc = "done" /\ arg.text = <<>>) =>
        /\ res.op = "summary" => res.summary = <<>>
        /\ res.op = "keywords" => res.keywords = <<>>
        /\ res.op = "stats" =>
               /\ DOMAIN res.stats = StatKeys
               /\ res.stats.characters = 0
               /\ res.stats.words = 0
               /\ res.stats.sentences = 0
               /\ res.stats.paragraphs = 0
               /\ res.stats.avg_sentence_length[1] = 0
               /\ res.stats.avg_word_length[1] = 0

\* C10: the keywords are at most top_n pairs of a term and its number of
\* occurrences among the qualifying lemmatized tokens, by count
\* non-increasing, equal counts by first insertion, and they are the first
\* top_n of that order.
C10_KeywordRanking ==
    (pc = "done" /\ res.op = "keywords") =>
        LET T == keyword_tokens(arg.text)
            K == res.keywords
            Terms == {T[i] : i \in 1..Len(T)}
            Before(t, u) ==
                \/ Occurrences(T, t) > Occurrences(T, u)
                \/ /\ Occurrences(T, t) = Occurrences(T, u)
                   /\ FirstOccurrence(T, t) < FirstOccurrence(T, u)
        IN  /\ Len(K) <= arg.n
            /\ Len(K) = (IF arg.n < Cardinality(Terms) THEN arg.n ELSE Cardinality(Terms))
            /\ \A i \in 1..Len(K) :
                   K[i][1] \in Terms /\ K[i][2] = Occurrences(T, K[i][1])
            /\ \A i, j \in 1..Len(K) : i < j => Before(K[i][1], K[j][1])
            /\ \A t \in Terms :
                   (\A i \in 1..Len(K) : K[i][1] # t) =>
                       \A i \in 1..Len(K) : Before(K[i][1], t)

\* Three keywords out of more terms, two of them of one count and one of a
\* lower count.
C10_Witness ==
    /\ pc = "done" /\ res.op = "keywords"
    /\ Len(res.keywords) = 3
    /\ Cardinality({keyword_tokens(arg.text)[i] : i \in 1..Len(keyword_tokens(arg.text))}) > 3
    /\ \E i, j \in 1..3 : i < j /\ res.keywords[i][2] = res.keywords[j][2]
    /\ \E i, j \in 1..3 : i < j /\ res.keywords[i][2] > res.keywords[j][2]

(***************************************************************************)
(* Properties of the script.                                               *)
(***************************************************************************)
\* C2: a failed stage does not stop the run.  When the text extraction fails
\* or gives no text, the session holds an empty text and the table stage is
\* run, its dataset recorded and, when asked for, saved; when no table is
\* found, the results of the text stage are recorded all the same.
C2_StageFailureIsolated ==
    (last.op = "main" /\ last.uploaded) =>
        /\ (~last.text_ok /\ last.show_tables) =>
               /\ last.table_stage
               /\ last.recorded
               /\ session.pdf_text = <<>>
               /\ session.tables_df = last.dataset
               /\ (last.persist /\ ~IsEmpty(last.dataset)) => last.save_called
        /\ (last.text_ok /\ IsEmpty(last.dataset)) =>
               /\ last.recorded
               /\ session.has_results

\* C3: with a store that never failed (no save and no read raised), a read
\* in a run that was asked to persist returns exactly the normalized dataset
\* of that run.
C3_ReadReturnsRunDataset ==
    (last.op = "main" /\ last.loaded /\ last.persist /\ ~last.fault_seen) =>
        last.read = last.dataset

====
